---- MODULE Spec2Model ----
(***************************************************************************)
(* Model of the real-time event core of the Mission Pinball Framework:     *)
(* the switch controller (mpf/system/switch_controller.py) and the timing  *)
(* service (mpf/system/timing.py).  The sources are Python 2 (iteritems,   *)
(* items() returning a list copy).                                         *)
(***************************************************************************)
EXTENDS Integers, Sequences, FiniteSets, TLC

\* ------------------------------------------------------------------ bounds
MaxTick == 2
MaxHandlers == 2
MaxEvents == 3
MaxReads == 4

\* ------------------------------------------------------- program constants
\* Timing.configure(HZ=50)
HZ == 50

\* ------------------------------------------------------------ configuration
\* machine.switches: the configured switch devices (name -> type, tags, number).
machine_switches ==
    [n \in {"A", "B"} |->
        IF n = "A"
        THEN [type |-> "NO", tags |-> <<"left_flipper">>, number |-> 1]
        ELSE [type |-> "NC", tags |-> <<"start", "playfield">>, number |-> 2]]

Names == DOMAIN machine_switches

\* ms arguments offered to add_switch_handler (0 and 2 ticks at HZ = 50)
MsValues == {0, 30}

VARIABLES
    budget,                 \* what a run may spend: [ticks, handlers, events]
    tick,                   \* Timing.tick
    switches,               \* SwitchController.switches: name -> [state, time]
    registered_switches,    \* key -> sequence of [ticks, callback]
    active_timed_switches,  \* tick -> sequence of [switch_action, callback]
    last,                   \* observation of the last switch-controller operation
    surplus,                \* dwell-0 callback -> invocations minus matching
                            \* process_switch events since its registration
    owed,                   \* <<callback, due>> -> number of entries into the target
                            \* state that the switch has not left since (a bag)
    lastChange,             \* name -> tick at which its logical state last changed
    nEvents,                \* number of process_switch calls so far
    timers,                 \* Timing.timers: the timers in the set
    timer_objs,             \* Timer objects: id -> [frequency, wakeup, callback]
    addedAt,                \* timer -> tick of its last add
    tlast                   \* observation of the last timing operation

swvars == <<switches, registered_switches, active_timed_switches, last, surplus,
            owed, lastChange, nEvents>>

tmvars == <<timers, timer_objs, addedAt, tlast>>

VARIABLES
    cvHZ,                   \* Timing.HZ as configured for the conversions
    cvIn,                   \* the last conversion call: [op, x, suffix]
    cvOut                   \* what that call returned

cvvars == <<cvHZ, cvIn, cvOut>>

VARIABLES
    srPos,                  \* where _socket_reader is: "reading", "returned", "raised"
    srReads,                \* the outcomes of reader.read(100) so far, in order
    srParsed,               \* the chunks handed to _parse_msg so far, in order
    srStops                 \* number of calls of machine.stop()

srvars == <<srPos, srReads, srParsed, srStops>>

VARIABLES
    acLevel,                \* config level_x, level_y, level_z of the accelerometer
    acValue,                \* Accelerometer.value (False before the first sample)
    acHasHistory,           \* whether Accelerometer.history holds a sample; its
                            \* value feeds only _handle_hits
    acLast                  \* observation of the last update_acceleration call

acvars == <<acLevel, acValue, acHasHistory, acLast>>

\* the state outside the switch controller and the timer set
auxvars == <<cvvars, srvars, acvars>>

\* ------------------------------------------------------------------ helpers
\* state ^ 1
Xor1(state) == IF state % 2 = 0 THEN state + 1 ELSE state - 1

\* math.ceil(a / b) for b > 0
Ceil(a, b) == -((-a) \div b)

\* all orders in which a dict or set with the elements S can be iterated
Orders(S) ==
    {f \in [1..Cardinality(S) -> S] : \A i, j \in DOMAIN f : i # j => f[i] # f[j]}

\* del d[k]
DictDel(d, k) == [x \in DOMAIN d \ {k} |-> d[x]]

\* d[k].append(v) on a defaultdict(list)
DictAppend(d, k, v) ==
    [x \in DOMAIN d \cup {k} |->
        IF x = k THEN (IF k \in DOMAIN d THEN Append(d[k], v) ELSE <<v>>) ELSE d[x]]

\* d[k] = v
DictSet(d, k, v) == [x \in DOMAIN d \cup {k} |-> IF x = k THEN v ELSE d[x]]

\* one step of the trace of an operation
Step(kind, cb, ev) == [step |-> kind, cb |-> cb, ev |-> ev]

\* the callbacks a trace invoked, as a sequence
CallsIn(trace) == SelectSeq(trace, LAMBDA s : s.step = "call")

\* number of invocations of callback cb in a trace
CountCalls(trace, cb) ==
    Cardinality({i \in 1..Len(trace) : trace[i].step = "call" /\ trace[i].cb = cb})

\* ------------------------------------------------------- switch controller
\* str(name) + '-' + str(state)
switch_key(name, state) == name \o "-" \o ToString(state)

\* a variant that flips every report of an NC switch, logical or not
FlipStateAlways(name, state, logical) ==
    IF machine_switches[name].type = "NC" THEN Xor1(state) ELSE state

\* is the incoming state flipped (NC switch and logical = False)
FlipState(name, state, logical) ==
    IF machine_switches[name].type = "NC" /\ logical = FALSE
    THEN Xor1(state)
    ELSE state

ticks_since_change(sw, name, now) == now - sw[name].time

is_state(sw, name, state, ticks, now) ==
    IF sw[name].state = state
    THEN ticks <= ticks_since_change(sw, name, now)
    ELSE FALSE

\* a variant that records the time only when the state changes value
set_stateOnChange(sw, name, state, now) ==
    [n \in DOMAIN sw \cup {name} |->
        IF n = name
        THEN [state |-> state,
              time |-> IF name \in DOMAIN sw /\ sw[name].state = state
                       THEN sw[name].time ELSE now]
        ELSE sw[n]]

set_state(sw, name, state, now) ==
    [n \in DOMAIN sw \cup {name} |->
        IF n = name THEN [state |-> state, time |-> now] ELSE sw[n]]

\* int(math.ceil(ms / Timing.secs_per_tick / 1000)) with secs_per_tick = 1 / HZ
MsToTicks(ms) == Ceil(ms * HZ, 1000)

\* a variant of the handler loop that files every entry as a pending fire,
\* the entries without a dwell too
RECURSIVE RunHandlersQueueAll(_, _, _, _)
RunHandlersQueueAll(entries, action, now, acc) ==
    IF entries = <<>>
    THEN acc
    ELSE RunHandlersQueueAll(Tail(entries), action, now,
             [ats |-> DictAppend(acc.ats, now + Head(entries).ticks,
                         [switch_action |-> action, callback |-> Head(entries).callback]),
              trace |-> Append(acc.trace, Step("queue", Head(entries).callback, ""))])

\* a variant of the handler loop that takes the entries last to first
RECURSIVE RunHandlersReversed(_, _, _, _)
RunHandlersReversed(entries, action, now, acc) ==
    IF entries = <<>>
    THEN acc
    ELSE LET entry == entries[Len(entries)]
         IN RunHandlersReversed(SubSeq(entries, 1, Len(entries) - 1), action, now,
                IF entry.ticks # 0
                THEN [ats |-> DictAppend(acc.ats, now + entry.ticks,
                                  [switch_action |-> action, callback |-> entry.callback]),
                      trace |-> Append(acc.trace, Step("queue", entry.callback, ""))]
                ELSE [ats |-> acc.ats,
                      trace |-> Append(acc.trace, Step("call", entry.callback, ""))])

\* the loop over registered_switches[switch_key] of process_switch
RECURSIVE RunHandlers(_, _, _, _)
RunHandlers(entries, action, now, acc) ==
    IF entries = <<>>
    THEN acc
    ELSE LET entry == Head(entries)
             next ==
                 IF entry.ticks # 0
                 THEN [ats |-> DictAppend(acc.ats, now + entry.ticks,
                                   [switch_action |-> action,
                                    callback |-> entry.callback]),
                       trace |-> Append(acc.trace, Step("queue", entry.callback, ""))]
                 ELSE [ats |-> acc.ats,
                       trace |-> Append(acc.trace, Step("call", entry.callback, ""))]
         IN RunHandlers(Tail(entries), action, now, next)

\* the inner loop "for item in v" of the cancellation sweep: every matching
\* item deletes bucket k; deleting a bucket that is gone raises KeyError
RECURSIVE SweepBucket(_, _, _, _)
SweepBucket(v, k, opposite, acc) ==
    IF v = <<>> \/ acc.error
    THEN acc
    ELSE IF Head(v).switch_action = opposite
         THEN IF k \in DOMAIN acc.ats
              THEN SweepBucket(Tail(v), k, opposite,
                               [ats |-> DictDel(acc.ats, k), error |-> FALSE])
              ELSE [ats |-> acc.ats, error |-> TRUE]
         ELSE SweepBucket(Tail(v), k, opposite, acc)

\* the outer loop over active_timed_switches.items() (a list copy, in the
\* dict's iteration order)
RECURSIVE Sweep(_, _, _)
Sweep(items, opposite, acc) ==
    IF items = <<>> \/ acc.error
    THEN acc
    ELSE Sweep(Tail(items), opposite,
               SweepBucket(Head(items)[2], Head(items)[1], opposite, acc))

\* dict.items() in iteration order
Items(d, order) == [i \in DOMAIN order |-> <<order[i], d[order[i]]>>]

\* the events posted by _post_switch_events, in order
RECURSIVE TagEvents(_)
TagEvents(tags) ==
    IF tags = <<>> THEN <<>>
    ELSE <<Step("post", "", "sw_" \o Head(tags))>> \o TagEvents(Tail(tags))

_post_switch_events(switch_name, state) ==
    IF state = 1
    THEN TagEvents(machine_switches[switch_name].tags)
    ELSE <<>>

\* the entries registered under a key (defaultdict lookup guarded by "in")
EntriesOf(key) ==
    IF key \in DOMAIN registered_switches THEN registered_switches[key] ELSE <<>>

\* the callbacks registered under a key, and those with a dwell
CallbacksOf(key) == {EntriesOf(key)[i].callback : i \in 1..Len(EntriesOf(key))}

TimedCallbacks(key) ==
    {EntriesOf(key)[i].callback :
        i \in {j \in 1..Len(EntriesOf(key)) : EntriesOf(key)[j].ticks # 0}}

AllCallbacks == UNION {CallbacksOf(k) : k \in DOMAIN registered_switches}

\* the callback a client passes when it registers on a key: every registration
\* brings a callback of its own, named after the slot it is registered in
NewCallback(key) == key \o "#" \o ToString(Len(EntriesOf(key)) + 1)

\* the bag of standing dwell obligations: the switch left the target state of
\* the callbacks cbs, and entered the target state of the dwell entries
OwedLeave(bag, cbs) == [o \in {x \in DOMAIN bag : x[1] \notin cbs} |-> bag[o]]

OwedEnter(bag, entries, now) ==
    LET new == {<<entries[i].callback, now + entries[i].ticks>> :
                    i \in {j \in 1..Len(entries) : entries[j].ticks # 0}}
    IN [o \in DOMAIN bag \cup new |->
           (IF o \in DOMAIN bag THEN bag[o] ELSE 0) + (IF o \in new THEN 1 ELSE 0)]

OwedCount(cb, due) == IF <<cb, due>> \in DOMAIN owed THEN owed[<<cb, due>>] ELSE 0

NoLast ==
    [op |-> "init", name |-> "", raw |-> 0, logical |-> FALSE, state |-> 0,
     dup |-> FALSE, trace |-> <<>>, error |-> FALSE, ms |-> 0, cb |-> ""]

process_switch(name, state, logical) ==
    /\ nEvents < budget.events
    /\ LET st == FlipState(name, state, logical)
           key == switch_key(name, st)
           opposite == switch_key(name, Xor1(st))
           dup == name \in DOMAIN switches /\ switches[name].state = st
           h == RunHandlers(EntriesOf(key), key, tick,
                            [ats |-> active_timed_switches, trace |-> <<>>])
       IN \E order \in Orders(DOMAIN h.ats) :
            LET sw == Sweep(Items(h.ats, order), opposite,
                            [ats |-> h.ats, error |-> FALSE])
                posted == IF sw.error THEN <<>> ELSE _post_switch_events(name, st)
            IN /\ switches' = set_state(switches, name, st, tick)
               /\ active_timed_switches' = sw.ats
               /\ last' = [NoLast EXCEPT
                              !.op = "process_switch", !.name = name, !.raw = state,
                              !.logical = logical, !.state = st, !.dup = dup,
                              !.trace = <<Step("set_state", "", "")>> \o h.trace
                                        \o <<Step("sweep", "", "")>> \o posted,
                              !.error = sw.error]
               /\ surplus' = [cb \in DOMAIN surplus |->
                                 surplus[cb] + CountCalls(h.trace, cb)
                                 - (IF cb \in CallbacksOf(key) THEN 1 ELSE 0)]
               /\ owed' = OwedEnter(OwedLeave(owed, TimedCallbacks(opposite)),
                                     EntriesOf(key), tick)
               /\ lastChange' = [n \in DOMAIN lastChange \cup {name} |->
                                    IF n = name /\ ~dup THEN tick ELSE lastChange[n]]
               /\ nEvents' = nEvents + 1
    /\ UNCHANGED <<budget, tick, registered_switches, tmvars, auxvars>>

add_switch_handler(switch_name, callback, state, ms) ==
    /\ LET ticks == MsToTicks(ms)
           entry_key == switch_key(switch_name, state)
           entry_val == [ticks |-> ticks, callback |-> callback]
       IN /\ registered_switches' = DictAppend(registered_switches, entry_key, entry_val)
          /\ surplus' = IF ticks = 0 THEN DictSet(surplus, callback, 0) ELSE surplus
          /\ last' = [NoLast EXCEPT !.op = "add_switch_handler", !.name = switch_name,
                                    !.state = state, !.ms = ms, !.cb = callback]
    /\ UNCHANGED <<budget, tick, switches, active_timed_switches, owed, lastChange,
                   nEvents, tmvars, auxvars>>

\* the loop of _tick over a copy of active_timed_switches
RECURSIVE TickBuckets(_, _, _)
TickBuckets(items, now, acc) ==
    IF items = <<>>
    THEN acc
    ELSE LET k == Head(items)[1]
             v == Head(items)[2]
         IN IF k <= now
            THEN TickBuckets(Tail(items), now,
                     [ats |-> DictDel(acc.ats, k),
                      trace |-> acc.trace \o
                                [i \in 1..Len(v) |-> Step("call", v[i].callback, "")]])
            ELSE TickBuckets(Tail(items), now, acc)

_tick(ats, now, order) ==
    TickBuckets(Items(ats, order), now, [ats |-> ats, trace |-> <<>>])

\* one machine tick: Timing.timer_tick advances the clock, then the
\* 'timer_tick' event runs the switch controller's _tick
Tick ==
    /\ tick < budget.ticks
    /\ tick' = tick + 1
    /\ \E order \in Orders(DOMAIN active_timed_switches) :
         LET r == _tick(active_timed_switches, tick + 1, order)
         IN /\ active_timed_switches' = r.ats
            /\ last' = [NoLast EXCEPT !.op = "tick", !.trace = r.trace]
            /\ surplus' = [cb \in DOMAIN surplus |->
                              surplus[cb] + CountCalls(r.trace, cb)]
    /\ owed' = [o \in {x \in DOMAIN owed : x[2] >= tick + 1} |-> owed[o]]
    /\ UNCHANGED <<budget, switches, registered_switches, lastChange, nEvents, tmvars, auxvars>>

\* ------------------------------------------------------------ timing service
\* timer.wakeup = None
None == -1

\* the Timer objects of a run, and the frequencies (in ticks) they are built with
TimerIds == {"t1", "t2"}
Frequencies == {0, 1, 2}

NoTLast ==
    [op |-> "init", timer |-> "", before |-> 0, trace |-> <<>>, error |-> FALSE,
     wakeup0 |-> None, changed |-> FALSE, fresh |-> {}, set0 |-> {}]

\* the timer that the callback "add" of a timer hands to Timing.add
Other(t) == CHOOSE u \in TimerIds : u # t

\* Timing.add
add(timer) ==
    /\ timer_objs' = [timer_objs EXCEPT ![timer].wakeup = tick + timer_objs[timer].frequency]
    /\ timers' = timers \cup {timer}
    /\ addedAt' = DictSet(addedAt, timer, tick)
    /\ tlast' = [NoTLast EXCEPT !.op = "add", !.timer = timer, !.before = tick]
    /\ UNCHANGED <<budget, tick, swvars, auxvars>>

\* Timing.remove: set.remove raises KeyError for a missing element
remove(timer) ==
    /\ timers' = timers \ {timer}
    /\ tlast' = [NoTLast EXCEPT !.op = "remove", !.timer = timer, !.before = tick,
                                !.error = (timer \notin timers), !.set0 = timers]
    /\ UNCHANGED <<budget, tick, timer_objs, addedAt, swvars, auxvars>>

\* a variant of the wakeup test with a strict comparison
DueStrict(o, now) == o.wakeup # None /\ o.wakeup # 0 /\ o.wakeup < now

\* "if timer.wakeup and timer.wakeup <= Timing.tick"
Due(o, now) == o.wakeup # None /\ o.wakeup # 0 /\ o.wakeup <= now

\* a variant of the loop body that assigns the new wakeup before the call
TimerStepAdvanceFirst(o) ==
    [obj |-> [o EXCEPT !.wakeup = IF o.frequency # 0 THEN o.wakeup + o.frequency
                                  ELSE None],
     error |-> (o.callback = "raise")]

\* the body of the loop of timer_tick for one due timer: the call, then the
\* new wakeup; a callback that raises leaves the loop before the assignment
TimerStep(o) ==
    IF o.callback = "raise"
    THEN [obj |-> o, error |-> TRUE]
    ELSE [obj |-> [o EXCEPT !.wakeup = IF o.frequency # 0
                                       THEN o.wakeup + o.frequency
                                       ELSE None],
          error |-> FALSE]

\* what timer.call() of timer t does to the timing service: the callback "add"
\* calls Timing.add(Other(t)), the other callbacks leave the service alone
TimerCall(t, now, acc) ==
    IF acc.objs[t].callback = "add"
    THEN [acc EXCEPT !.objs[Other(t)].wakeup = now + acc.objs[Other(t)].frequency,
                     !.timers = acc.timers \cup {Other(t)},
                     !.added = acc.added \cup {Other(t)}]
    ELSE acc

\* the loop "for timer in self.timers": the set iterator raises RuntimeError
\* ("Set changed size during iteration") at its next step, the final one
\* included, once the size of the set differs from the size at the start
RECURSIVE RunTimers(_, _, _)
RunTimers(order, now, acc) ==
    IF acc.error
    THEN acc
    ELSE IF Cardinality(acc.timers) # acc.size0
    THEN [acc EXCEPT !.changed = TRUE]
    ELSE IF order = <<>>
    THEN acc
    ELSE LET t == Head(order)
             o == acc.objs[t]
             c == TimerCall(t, now, acc)
             r == TimerStep(c.objs[t])
         IN IF Due(o, now)
            THEN RunTimers(Tail(order), now,
                     [c EXCEPT !.objs[t] = r.obj,
                               !.trace = Append(acc.trace, t),
                               !.error = r.error,
                               !.wakeup0 = IF r.error THEN o.wakeup ELSE acc.wakeup0])
            ELSE RunTimers(Tail(order), now, acc)

\* Timing.timer_tick
timer_tick ==
    /\ tick < budget.ticks
    /\ tick' = tick + 1
    /\ \E order \in Orders(timers) :
         LET r == RunTimers(order, tick + 1,
                     [objs |-> timer_objs, trace |-> <<>>, error |-> FALSE,
                      wakeup0 |-> None, timers |-> timers, added |-> {},
                      size0 |-> Cardinality(timers), changed |-> FALSE])
         IN /\ timer_objs' = r.objs
            /\ timers' = r.timers
            /\ addedAt' = [t \in DOMAIN addedAt \cup r.added |->
                              IF t \in r.added THEN tick + 1 ELSE addedAt[t]]
            /\ tlast' = [NoTLast EXCEPT !.op = "timer_tick", !.before = tick,
                                        !.trace = r.trace, !.error = r.error,
                                        !.wakeup0 = r.wakeup0,
                                        !.changed = r.changed,
                                        !.fresh = r.added \ timers]
    /\ UNCHANGED <<budget, swvars, auxvars>>

\* ------------------------------------------------------ float arithmetic
\* Python floats are IEEE 754 doubles.  A double is modelled as a record
\* [s, m, e] of value s * m * 2^e with sign s, a 53-bit mantissa m
\* (2^52 <= m < 2^53, or 0 for zero) held in four limbs of 14 bits, least
\* significant first, and an exponent e.
Limb == 16384

BZero == <<0, 0, 0, 0>>

\* a natural number below 2^31 in limbs
BOfInt(n) == <<n % Limb, (n \div Limb) % Limb, (n \div Limb) \div Limb, 0>>

\* a number below 2^31 out of its limbs
BToInt(x) == x[1] + Limb * x[2] + Limb * Limb * x[3]

\* 2 * x + bit
BDouble(x, bit) ==
    LET v1 == 2 * x[1] + bit
        v2 == 2 * x[2] + v1 \div Limb
        v3 == 2 * x[3] + v2 \div Limb
        v4 == 2 * x[4] + v3 \div Limb
    IN <<v1 % Limb, v2 % Limb, v3 % Limb, v4>>

\* x \div 2
BHalf(x) ==
    <<(x[1] + (x[2] % 2) * Limb) \div 2, (x[2] + (x[3] % 2) * Limb) \div 2,
      (x[3] + (x[4] % 2) * Limb) \div 2, x[4] \div 2>>

\* x + 1
BInc(x) ==
    LET v1 == x[1] + 1
        v2 == x[2] + v1 \div Limb
        v3 == x[3] + v2 \div Limb
        v4 == x[4] + v3 \div Limb
    IN <<v1 % Limb, v2 % Limb, v3 % Limb, v4>>

\* x >= y
BGeq(x, y) ==
    \/ x[4] > y[4]
    \/ x[4] = y[4] /\ x[3] > y[3]
    \/ x[4] = y[4] /\ x[3] = y[3] /\ x[2] > y[2]
    \/ x[4] = y[4] /\ x[3] = y[3] /\ x[2] = y[2] /\ x[1] >= y[1]

\* x - y for x >= y
BSub(x, y) ==
    LET b1 == IF x[1] < y[1] THEN 1 ELSE 0
        b2 == IF x[2] - b1 < y[2] THEN 1 ELSE 0
        b3 == IF x[3] - b2 < y[3] THEN 1 ELSE 0
    IN <<x[1] - y[1] + b1 * Limb, x[2] - b1 - y[2] + b2 * Limb,
         x[3] - b2 - y[3] + b3 * Limb, x[4] - b3 - y[4]>>

\* the top limb of 2^52 and of 2^53
Top52 == 1024
Top53 == 2048

FZero == [s |-> 1, m |-> BZero, e |-> 0]

\* shift a non-zero mantissa left until it has 53 bits
RECURSIVE Normalize(_, _)
Normalize(m, e) ==
    IF m[4] >= Top52 THEN [m |-> m, e |-> e] ELSE Normalize(BDouble(m, 0), e - 1)

\* float(n) for an integer n with |n| < 2^31 (exact)
FOfInt(n) ==
    IF n = 0
    THEN FZero
    ELSE LET a == IF n < 0 THEN -n ELSE n
             r == Normalize(BOfInt(a), 0)
         IN [s |-> IF n < 0 THEN -1 ELSE 1, m |-> r.m, e |-> r.e]

\* one further bit of the quotient of st.r by d (st.r < d)
DivBit(st, d) ==
    LET r2 == BDouble(st.r, 0)
    IN IF BGeq(r2, d)
       THEN [q |-> BDouble(st.q, 1), r |-> BSub(r2, d)]
       ELSE [q |-> BDouble(st.q, 0), r |-> r2]

\* n further bits of the quotient: [q, r]; the test of st.r < d makes every
\* step work on an evaluated state
RECURSIVE DivBits(_, _, _)
DivBits(st, d, n) ==
    IF n = 0 \/ BGeq(st.r, d) THEN st ELSE DivBits(DivBit(st, d), d, n - 1)

\* a / b of two doubles (b non-zero), rounded to nearest, ties to even
FDiv(a, b) ==
    IF a.m = BZero
    THEN FZero
    ELSE LET big == BGeq(a.m, b.m)
             d == IF big
                  THEN DivBits([q |-> BOfInt(1), r |-> BSub(a.m, b.m)], b.m, 53)
                  ELSE DivBits([q |-> BZero, r |-> a.m], b.m, 54)
             e == a.e - b.e - (IF big THEN 52 ELSE 53)
             m == BHalf(d.q)
             up == d.q[1] % 2 = 1 /\ (d.r # BZero \/ m[1] % 2 = 1)
             m1 == IF up THEN BInc(m) ELSE m
         IN IF m1[4] >= Top53
            THEN [s |-> a.s * b.s, m |-> BHalf(m1), e |-> e + 1]
            ELSE [s |-> a.s * b.s, m |-> m1, e |-> e]

\* the integer part of |x| and whether a fraction was cut off, |x| < 2^31
RECURSIVE Trunc(_, _, _)
Trunc(m, e, cut) ==
    IF e >= 0 \/ m = BZero
    THEN [int |-> BToInt(m), cut |-> cut]
    ELSE Trunc(BHalf(m), e + 1, cut \/ m[1] % 2 = 1)

\* int(x): towards zero
FInt(x) == x.s * Trunc(x.m, x.e, FALSE).int

\* int(math.ceil(x))
FCeil(x) ==
    LET t == Trunc(x.m, x.e, FALSE)
    IN IF x.s = 1 THEN t.int + (IF t.cut THEN 1 ELSE 0) ELSE -t.int

\* ------------------------------------------------------------- conversions
\* Timing.secs_per_tick = 1 / float(HZ)
secs_per_tick(hz) == FDiv(FOfInt(1), FOfInt(hz))

\* Timing.msecs: int(ms / Timing.secs_per_tick / 1000)
msecs(ms, hz) == FInt(FDiv(FDiv(FOfInt(ms), secs_per_tick(hz)), FOfInt(1000)))

\* Timing.secs: int(s / Timing.secs_per_tick)
secs(sec, hz) == FInt(FDiv(FOfInt(sec), secs_per_tick(hz)))

\* the ticks that add_switch_handler computes:
\* int(math.ceil(ms / Timing.secs_per_tick / 1000))
HandlerTicks(ms, hz) ==
    FCeil(FDiv(FDiv(FOfInt(ms), secs_per_tick(hz)), FOfInt(1000)))

\* str(n) of a non-negative integer, as a sequence of characters
RECURSIVE Digits(_)
Digits(n) ==
    IF n < 10
    THEN <<ToString(n)>>
    ELSE Append(Digits(n \div 10), ToString(n % 10))

Letters == {"m", "s", "e", "c", "M", "S", "E", "C"}

\* str.upper, character by character
Upper(c) ==
    CASE c = "m" -> "M" [] c = "s" -> "S" [] c = "e" -> "E" [] c = "c" -> "C"
      [] OTHER -> c

\* str.endswith
EndsWith(t, suffix) ==
    /\ Len(t) >= Len(suffix)
    /\ SubSeq(t, Len(t) - Len(suffix) + 1, Len(t)) = suffix

\* ''.join(i for i in time if not i.isalpha())
NoAlpha(t) == SelectSeq(t, LAMBDA c : c \notin Letters)

\* the value of a string of decimal digits
RECURSIVE DigitsValue(_)
DigitsValue(t) ==
    IF t = <<>>
    THEN 0
    ELSE 10 * DigitsValue(SubSeq(t, 1, Len(t) - 1))
            + (CHOOSE v \in 0..9 : ToString(v) = t[Len(t)])

\* Timing.time_to_ticks: the text is upper-cased first, then tested for the
\* lower-case suffixes
time_to_ticks(time, hz) ==
    LET t == [i \in 1..Len(time) |-> Upper(time[i])]
    IN IF EndsWith(t, <<"m", "s">>) \/ EndsWith(t, <<"m", "s", "e", "c">>)
       THEN msecs(DigitsValue(NoAlpha(t)), hz)
       ELSE secs(DigitsValue(NoAlpha(t)), hz)

\* the tick rates, numbers and suffixes tried
HZValues == {49, 50, 75}
XValues == {0, 1, 3, 5, 20, 100, 200, 1000, 1500}
Suffixes == {<<>>, <<"s">>, <<"m", "s">>}

NoInput == [op |-> "init", x |-> 0, suffix |-> <<>>]

\* a call of Timing.time_to_ticks on str(x) + suffix
time_to_ticks_call(x, suffix) ==
    /\ cvIn = NoInput
    /\ cvIn' = [op |-> "time_to_ticks", x |-> x, suffix |-> suffix]
    /\ cvOut' = time_to_ticks(Digits(x) \o suffix, cvHZ)
    /\ UNCHANGED <<budget, tick, swvars, tmvars, cvHZ, srvars, acvars>>

\* the ticks add_switch_handler computes for ms
handler_ticks_call(ms) ==
    /\ cvIn = NoInput
    /\ cvIn' = [op |-> "add_switch_handler", x |-> ms, suffix |-> <<>>]
    /\ cvOut' = HandlerTicks(ms, cvHZ)
    /\ UNCHANGED <<budget, tick, swvars, tmvars, cvHZ, srvars, acvars>>

\* no conversion under way
NoConv == cvHZ = HZ /\ cvIn = NoInput /\ cvOut = 0

\* ------------------------------------------------------------ serial reader
\* what reader.read(100) can do: return a non-empty chunk, return an empty
\* chunk (socket closed), raise an error, raise asyncio.CancelledError
Chunks == {"a", "b"}
ReadOutcomes ==
    [kind : {"chunk"}, data : Chunks]
        \cup [kind : {"empty", "error", "cancelled"}, data : {""}]

\* a variant that takes only the error for a failed read
ReadFailedOnError(resp) == resp.kind = "error"

\* "except Exception: resp = None" followed by "if not resp"
ReadFailed(resp) == resp.kind = "error" \/ resp.kind = "empty"

\* one iteration of the loop of _socket_reader: the read, then either the
\* stop of the machine or _parse_msg, which returns or raises
_socket_reader(resp, parse) ==
    /\ srPos = "reading"
    /\ Len(srReads) < MaxReads
    /\ srReads' = Append(srReads, resp)
    /\ IF resp.kind = "cancelled"
       THEN srPos' = "raised" /\ UNCHANGED <<srParsed, srStops>>
       ELSE IF ReadFailed(resp)
       THEN srPos' = "returned" /\ srStops' = srStops + 1 /\ UNCHANGED srParsed
       ELSE /\ srParsed' = Append(srParsed, resp.data)
            /\ srPos' = IF parse = "raise" THEN "raised" ELSE "reading"
            /\ UNCHANGED srStops
    /\ UNCHANGED <<budget, tick, swvars, tmvars, cvvars, acvars>>

\* no serial connection
NoSerial == srPos = "idle" /\ srReads = <<>> /\ srParsed = <<>> /\ srStops = 0

\* ------------------------------------------------------------ accelerometer
\* config['level_limits']: one limit, in degrees, and the event posted above it;
\* config['hit_limits'] is empty
LevelLimit == 90
LevelEvent == "tilted"

\* x*x + y*y + z*z: _calculate_vector_length is its math.sqrt, which is 0.0
\* exactly when this sum of integers is 0
SquaredLength(v) == v[1] * v[1] + v[2] * v[2] + v[3] * v[3]

Dot(v, w) == v[1] * w[1] + v[2] * w[2] + v[3] * w[3]

\* v and w point along the same line: the quotient of _calculate_angle is 1
\* or -1 up to rounding
Parallel(v, w) ==
    /\ v[2] * w[3] = v[3] * w[2]
    /\ v[3] * w[1] = v[1] * w[3]
    /\ v[1] * w[2] = v[2] * w[1]

\* how _calculate_angle(v, w) can end: the division raises ZeroDivisionError
\* when a length is 0.0; for vectors along the same line the rounded quotient
\* can lie outside [-1, 1], where math.acos raises ValueError
_calculate_angle(v, w) ==
    IF SquaredLength(v) = 0 \/ SquaredLength(w) = 0
    THEN {"ZeroDivisionError"}
    ELSE IF Parallel(v, w)
    THEN {"angle", "ValueError"}
    ELSE {"angle"}

\* deviation_total / math.pi * 180 > 90: the angle between v and w is above
\* 90 degrees exactly when their dot product is negative
AboveLimit(v, w) == Dot(v, w) < 0

NoSample == [op |-> "init", sample |-> <<0, 0, 0>>, error |-> "none", posts |-> <<>>]

\* Accelerometer.update_acceleration with _handle_hits (no limits, no events)
\* and _handle_level
update_acceleration(x, y, z) ==
    /\ acLevel # <<>>
    /\ acValue' = <<x, y, z>>
    /\ acHasHistory' = TRUE
    /\ \E total \in _calculate_angle(acLevel, <<x, y, z>>),
          dev_x \in _calculate_angle(<<0, acLevel[2], acLevel[3]>>, <<0, y, z>>),
          dev_y \in _calculate_angle(<<acLevel[1], 0, acLevel[3]>>, <<x, 0, z>>) :
         LET error == IF total # "angle" THEN total
                      ELSE IF dev_x # "angle" THEN dev_x
                      ELSE IF dev_y # "angle" THEN dev_y
                      ELSE "none"
             posts == IF error = "none" /\ AboveLimit(acLevel, <<x, y, z>>)
                      THEN <<LevelEvent>> ELSE <<>>
         IN acLast' = [op |-> "update_acceleration", sample |-> <<x, y, z>>,
                       error |-> error, posts |-> posts]
    /\ UNCHANGED <<budget, tick, swvars, tmvars, cvvars, srvars, acLevel>>

\* no accelerometer
NoAccel == acLevel = <<>> /\ acValue = <<>> /\ acHasHistory = FALSE /\ acLast = NoSample

NoAux == NoConv /\ NoSerial /\ NoAccel

\* ------------------------------------- process_switch by name, num or obj
\* str(None): the name when the caller passes none
NoName == "None"

\* the name process_switch works with: the switch whose number is num, else
\* the name passed in; obj.name when only obj is given
FindName(name, num, obj) ==
    IF num # None
    THEN IF \E n \in Names : machine_switches[n].number = num
         THEN CHOOSE n \in Names : machine_switches[n].number = num
         ELSE name
    ELSE IF obj # NoName
         THEN obj
         ELSE name

\* a variant that looks the switch up only after the state table was written
process_switch_callLate(name, num, obj, state, logical) ==
    LET n == FindName(name, num, obj)
    IN IF n \in DOMAIN machine_switches
       THEN process_switch(n, state, logical)
       ELSE /\ switches' = set_state(switches, n, state, tick)
            /\ last' = [NoLast EXCEPT !.op = "process_switch", !.name = n,
                                      !.raw = state, !.logical = logical,
                                      !.error = TRUE]
            /\ UNCHANGED <<budget, tick, registered_switches, active_timed_switches,
                           surplus, owed, lastChange, nEvents, tmvars, auxvars>>

\* process_switch as the platform calls it; machine.switches[name] raises for
\* a name that is not in the table, before set_state
process_switch_call(name, num, obj, state, logical) ==
    LET n == FindName(name, num, obj)
    IN IF n \in DOMAIN machine_switches
       THEN process_switch(n, state, logical)
       ELSE /\ last' = [NoLast EXCEPT !.op = "process_switch", !.name = n,
                                      !.raw = state, !.logical = logical,
                                      !.error = TRUE]
            /\ UNCHANGED <<budget, tick, switches, registered_switches,
                           active_timed_switches, surplus, owed, lastChange,
                           nEvents, tmvars, auxvars>>

\* --------------------------- the tick hook with callbacks that report switches
\* what a due callback does when the tick hook invokes it: it returns, or it
\* calls process_switch(name, state, logical=True) and returns
Return == <<"", 0>>

Moves == {Return} \cup (Names \X {0, 1})

\* the keys of a dict in iteration order, for a dict with the keys S
Restrict(order, S) == SelectSeq(order, LAMBDA k : k \in S)

\* process_switch(name, st, logical=True) called from a callback of the tick
\* hook; the dwell-0 handlers it invokes return
NestedProcess(acc, name, st, now, order) ==
    LET key == switch_key(name, st)
        opposite == switch_key(name, Xor1(st))
        dup == name \in DOMAIN acc.sw /\ acc.sw[name].state = st
        h == RunHandlers(EntriesOf(key), key, now, [ats |-> acc.ats, trace |-> <<>>])
        sw == Sweep(Items(h.ats, Restrict(order, DOMAIN h.ats)), opposite,
                    [ats |-> h.ats, error |-> FALSE])
        posted == IF sw.error THEN <<>> ELSE _post_switch_events(name, st)
    IN [sw |-> set_state(acc.sw, name, st, now),
        ats |-> sw.ats,
        trace |-> acc.trace \o <<Step("set_state", "", "")>> \o h.trace
                  \o <<Step("sweep", "", "")>> \o posted,
        error |-> sw.error,
        surplus |-> [cb \in DOMAIN acc.surplus |->
                        acc.surplus[cb] + CountCalls(h.trace, cb)
                        - (IF cb \in CallbacksOf(key) THEN 1 ELSE 0)],
        owed |-> OwedEnter(OwedLeave(acc.owed, TimedCallbacks(opposite)),
                           EntriesOf(key), now),
        lastChange |-> [n \in DOMAIN acc.lastChange \cup {name} |->
                           IF n = name /\ ~dup THEN now ELSE acc.lastChange[n]],
        nested |-> acc.nested + 1]

\* the loop "for item in v: item['callback']()" of _tick; an error raised in
\* a callback leaves the loop
RECURSIVE InvokeItems(_, _, _, _, _)
InvokeItems(v, now, moves, order, acc) ==
    IF v = <<>> \/ acc.error
    THEN acc
    ELSE LET cb == Head(v).callback
             called == [acc EXCEPT
                           !.trace = Append(acc.trace, Step("call", cb, "")),
                           !.surplus = [c \in DOMAIN acc.surplus |->
                                           acc.surplus[c] + (IF c = cb THEN 1 ELSE 0)]]
         IN InvokeItems(Tail(v), now, moves, order,
                IF moves[cb] = Return
                THEN called
                ELSE NestedProcess(called, moves[cb][1], moves[cb][2], now, order))

\* the loop of _tick over the copy of active_timed_switches: the callbacks of
\* a due bucket run, then del self.active_timed_switches[k], which raises
\* KeyError when the bucket is gone
RECURSIVE TickBucketsReentrant(_, _, _, _, _)
TickBucketsReentrant(items, now, moves, order, acc) ==
    IF items = <<>> \/ acc.error
    THEN acc
    ELSE LET k == Head(items)[1]
             v == Head(items)[2]
             a == InvokeItems(v, now, moves, order, acc)
         IN IF k <= now
            THEN IF a.error
                 THEN a
                 ELSE IF k \in DOMAIN a.ats
                      THEN TickBucketsReentrant(Tail(items), now, moves, order,
                                                [a EXCEPT !.ats = DictDel(a.ats, k)])
                      ELSE [a EXCEPT !.error = TRUE]
            ELSE TickBucketsReentrant(Tail(items), now, moves, order, acc)

\* the callbacks of the buckets that are due at tick now
DueCallbacks(now) ==
    UNION {{active_timed_switches[k][i].callback :
                i \in 1..Len(active_timed_switches[k])} :
           k \in {x \in DOMAIN active_timed_switches : x <= now}}

\* the keys active_timed_switches can have during the tick hook of tick now
KeysDuring(now) ==
    DOMAIN active_timed_switches
        \cup UNION {{now + registered_switches[key][i].ticks :
                        i \in 1..Len(registered_switches[key])} :
                    key \in DOMAIN registered_switches}

\* one machine tick whose due callbacks may call process_switch
TickReentrant ==
    /\ tick < budget.ticks
    /\ tick' = tick + 1
    /\ \E order \in Orders(KeysDuring(tick + 1)),
          moves \in [DueCallbacks(tick + 1) -> Moves] :
         /\ nEvents < budget.events \/ \A cb \in DOMAIN moves : moves[cb] = Return
         /\ LET r == TickBucketsReentrant(
                         Items(active_timed_switches,
                               Restrict(order, DOMAIN active_timed_switches)),
                         tick + 1, moves, order,
                         [sw |-> switches, ats |-> active_timed_switches,
                          trace |-> <<>>, error |-> FALSE, surplus |-> surplus,
                          owed |-> owed, lastChange |-> lastChange, nested |-> 0])
            IN /\ switches' = r.sw
               /\ active_timed_switches' = r.ats
               /\ last' = [NoLast EXCEPT !.op = "tick", !.trace = r.trace,
                                         !.error = r.error]
               /\ surplus' = r.surplus
               /\ owed' = [o \in {x \in DOMAIN r.owed : x[2] >= tick + 1} |-> r.owed[o]]
               /\ lastChange' = r.lastChange
               /\ nEvents' = nEvents + r.nested
    /\ UNCHANGED <<budget, registered_switches, tmvars, auxvars>>

\* ----------------------------------------------------------- specifications
InitSwitches ==
    /\ switches = <<>>
    /\ registered_switches = <<>>
    /\ active_timed_switches = <<>>
    /\ last = NoLast
    /\ surplus = <<>>
    /\ owed = <<>>
    /\ lastChange = <<>>
    /\ nEvents = 0

InitTimers(kinds) ==
    /\ timers = {}
    /\ timer_objs \in [TimerIds -> [frequency : Frequencies, wakeup : {None},
                                    callback : kinds]]
    /\ addedAt = <<>>
    /\ tlast = NoTLast

\* the budgets of the specifications
Wide == [ticks |-> MaxTick, handlers |-> MaxHandlers, events |-> MaxEvents]

Narrow == [ticks |-> MaxTick, handlers |-> MaxHandlers - 1, events |-> MaxEvents - 1]

Long == [ticks |-> 2 * MaxTick, handlers |-> 0, events |-> 0]

NoTimers ==
    /\ timers = {}
    /\ timer_objs = <<>>
    /\ addedAt = <<>>
    /\ tlast = NoTLast

\* the switch controller, driven by switch events and machine ticks
Init == budget = Wide /\ tick = 0 /\ InitSwitches /\ NoTimers /\ NoAux

Next ==
    \/ \E n \in Names, s \in {0, 1}, ms \in MsValues :
         /\ Cardinality(AllCallbacks) < budget.handlers
         /\ add_switch_handler(n, NewCallback(switch_key(n, s)), s, ms)
    \/ \E n \in Names, s \in {0, 1}, l \in BOOLEAN : process_switch(n, s, l)
    \/ Tick

vars == <<budget, tick, swvars, tmvars, auxvars>>

Spec == Init /\ [][Next]_vars

\* the same controller on the narrow budget
InitNarrow == budget = Narrow /\ tick = 0 /\ InitSwitches /\ NoTimers /\ NoAux

SpecNarrow == InitNarrow /\ [][Next]_vars

\* the timing service with timers whose callbacks return
InitTiming == budget = Long /\ tick = 0 /\ InitSwitches /\ InitTimers({"note"}) /\ NoAux

NextTiming ==
    \/ \E t \in TimerIds : add(t)
    \/ \E t \in TimerIds : remove(t)
    \/ timer_tick

SpecTiming == InitTiming /\ [][NextTiming]_vars

\* the timing service with timers whose callbacks may raise
InitTimingExc == budget = Long /\ tick = 0 /\ InitSwitches /\ InitTimers({"note", "raise"}) /\ NoAux

SpecTimingExc == InitTimingExc /\ [][NextTiming]_vars

\* the timing service with timers whose callbacks may add a timer
InitTimingAdd == budget = Long /\ tick = 0 /\ InitSwitches /\ InitTimers({"note", "add"}) /\ NoAux

SpecTimingAdd == InitTimingAdd /\ [][NextTiming]_vars

\* the same controller with room for two handlers and fewer events and ticks
Order == [ticks |-> MaxTick - 1, handlers |-> MaxHandlers, events |-> MaxEvents - 1]

InitOrder == budget = Order /\ tick = 0 /\ InitSwitches /\ NoTimers /\ NoAux

\* every switch change arrives as a logical state
NextOrder ==
    \/ \E n \in Names, s \in {0, 1}, ms \in MsValues :
         /\ Cardinality(AllCallbacks) < budget.handlers
         /\ add_switch_handler(n, NewCallback(switch_key(n, s)), s, ms)
    \/ \E n \in Names, s \in {0, 1} : process_switch(n, s, TRUE)
    \/ Tick

SpecOrder == InitOrder /\ [][NextOrder]_vars

\* the controller offered registrations that a configuration check would
\* turn down: a switch name that is not configured, a negative ms
LooseNames == Names \cup {"Z"}
LooseMsValues == MsValues \cup {-30}

InitLoose == budget = Narrow /\ tick = 0 /\ InitSwitches /\ NoTimers /\ NoAux

NextLoose ==
    \/ \E n \in LooseNames, s \in {0, 1}, ms \in LooseMsValues :
         /\ Cardinality(AllCallbacks) < budget.handlers
         /\ add_switch_handler(n, NewCallback(switch_key(n, s)), s, ms)
    \/ \E n \in Names, s \in {0, 1}, l \in BOOLEAN : process_switch(n, s, l)
    \/ Tick

SpecLoose == InitLoose /\ [][NextLoose]_vars

\* the controller called by name, by number and by switch object, for switches
\* of the table and for others: <<name, num, obj>>
Calls ==
    {<<n, None, NoName>> : n \in Names \cup {"Z"}}
        \cup {<<NoName, machine_switches[n].number, NoName>> : n \in Names}
        \cup {<<NoName, 9, NoName>>, <<NoName, None, "B">>, <<NoName, 9, "A">>}

Small == [ticks |-> MaxTick - 1, handlers |-> MaxHandlers - 1, events |-> MaxEvents - 2]

InitUnknown == budget = Small /\ tick = 0 /\ InitSwitches /\ NoTimers /\ NoAux

NextUnknown ==
    \/ \E n \in Names, s \in {0, 1}, ms \in MsValues :
         /\ Cardinality(AllCallbacks) < budget.handlers
         /\ add_switch_handler(n, NewCallback(switch_key(n, s)), s, ms)
    \/ \E c \in Calls, s \in {0, 1}, l \in BOOLEAN :
         process_switch_call(c[1], c[2], c[3], s, l)
    \/ Tick

SpecUnknown == InitUnknown /\ [][NextUnknown]_vars

\* the controller with handlers that report switch changes from the tick hook
InitReentrant == budget = Narrow /\ tick = 0 /\ InitSwitches /\ NoTimers /\ NoAux

NextReentrant ==
    \/ \E n \in Names, s \in {0, 1}, ms \in MsValues :
         /\ Cardinality(AllCallbacks) < budget.handlers
         /\ add_switch_handler(n, NewCallback(switch_key(n, s)), s, ms)
    \/ \E n \in Names, s \in {0, 1}, l \in BOOLEAN : process_switch(n, s, l)
    \/ TickReentrant

SpecReentrant == InitReentrant /\ [][NextReentrant]_vars

\* the conversions of the timing service and of add_switch_handler
InitConv ==
    /\ budget = Long /\ tick = 0 /\ InitSwitches /\ NoTimers
    /\ cvHZ \in HZValues /\ cvIn = NoInput /\ cvOut = 0
    /\ NoSerial /\ NoAccel

NextConv ==
    \/ \E x \in XValues, suffix \in Suffixes : time_to_ticks_call(x, suffix)
    \/ \E ms \in XValues : handler_ticks_call(ms)

SpecConv == InitConv /\ [][NextConv]_vars

\* the read loop of a serial communicator after connect
InitSerial ==
    /\ budget = Long /\ tick = 0 /\ InitSwitches /\ NoTimers /\ NoConv
    /\ srPos = "reading" /\ srReads = <<>> /\ srParsed = <<>> /\ srStops = 0
    /\ NoAccel

NextSerial ==
    \E resp \in ReadOutcomes, parse \in {"return", "raise"} : _socket_reader(resp, parse)

SpecSerial == InitSerial /\ [][NextSerial]_vars

\* an accelerometer with a configured level vector, fed samples
Components == {-1, 0, 1}
Levels == {<<0, 0, 1>>, <<0, 1, 1>>, <<1, 1, 1>>, <<0, 0, 0>>}

InitAccel ==
    /\ budget = Long /\ tick = 0 /\ InitSwitches /\ NoTimers /\ NoConv /\ NoSerial
    /\ acLevel \in Levels /\ acValue = <<>> /\ acHasHistory = FALSE /\ acLast = NoSample

NextAccel == \E x \in Components, y \in Components, z \in Components : update_acceleration(x, y, z)

SpecAccel == InitAccel /\ [][NextAccel]_vars

\* ------------------------------------------------------------------- claims
\* the logical state a report (name, raw, logical) stands for
Expected(name, raw, logical) ==
    IF machine_switches[name].type = "NC" /\ ~logical THEN 1 - raw ELSE raw

IsCall(st) == st.step = "call"
IsQueue(st) == st.step = "queue"
IsPost(st) == st.step = "post"

\* the event names a trace posted, in order
Posts(trace) ==
    LET p == SelectSeq(trace, IsPost) IN [i \in 1..Len(p) |-> p[i].ev]

\* the callbacks with a dwell that are registered
AllTimedCallbacks == UNION {TimedCallbacks(k) : k \in DOMAIN registered_switches}

\* the pending fires of a switch action in active_timed_switches
PendingFor(action) ==
    {<<k, i>> \in UNION {{<<k, i>> : i \in 1..Len(active_timed_switches[k])} :
                            k \in DOMAIN active_timed_switches} :
        active_timed_switches[k][i].switch_action = action}

\* C1: after the tick hook of tick T, a dwell handler has been invoked once for
\* every entry of its switch into the target state that fell due at T and that
\* the switch has not left since, and a handler with entries that are not yet
\* due has not been invoked, whatever other switches and registrations did.
C1_DwellFiresOnceAtDue ==
    last.op = "tick" =>
        \A cb \in AllTimedCallbacks :
            /\ OwedCount(cb, tick) >= 1 =>
                   CountCalls(last.trace, cb) = OwedCount(cb, tick)
            /\ (OwedCount(cb, tick) = 0 /\ \E o \in DOMAIN owed : o[1] = cb) =>
                   CountCalls(last.trace, cb) = 0

\* C2: an entry that the switch left before its due tick never fires (the tick
\* hook invokes a handler at most once per standing entry due at that tick),
\* and after a process_switch call no pending fire remains for the opposite
\* state of that switch.
C2_LeavingCancels ==
    /\ last.op = "tick" =>
           \A cb \in AllTimedCallbacks : CountCalls(last.trace, cb) <= OwedCount(cb, tick)
    /\ last.op = "process_switch" =>
           PendingFor(switch_key(last.name, 1 - last.state)) = {}

\* C3: a process_switch call that reports the state the switch already has
\* invokes no handler and queues no pending fire.
C3_DuplicateReportIsSilent ==
    (last.op = "process_switch" /\ last.dup) =>
        \A i \in 1..Len(last.trace) : ~IsCall(last.trace[i]) /\ ~IsQueue(last.trace[i])

C6_InversionUsedThroughout ==
    last.op = "process_switch" =>
        LET exp == Expected(last.name, last.raw, last.logical)
            key == switch_key(last.name, exp)
        IN /\ switches[last.name].state = exp
           /\ \A cb \in AllCallbacks :
                  Cardinality({i \in 1..Len(last.trace) :
                                  /\ IsCall(last.trace[i]) \/ IsQueue(last.trace[i])
                                  /\ last.trace[i].cb = cb})
                      = IF cb \in CallbacksOf(key) THEN 1 ELSE 0
           /\ \A k \in DOMAIN active_timed_switches :
                  \A i \in 1..Len(active_timed_switches[k]) :
                      active_timed_switches[k][i].callback
                          \in CallbacksOf(active_timed_switches[k][i].switch_action)
           /\ Posts(last.trace) # <<>> => exp = 1

C6_Witness ==
    /\ last.op = "process_switch"
    /\ machine_switches[last.name].type = "NC"
    /\ ~last.logical
    /\ last.raw = 1
    /\ switches[last.name].state = 0
    /\ \E i \in 1..Len(last.trace) :
           /\ IsCall(last.trace[i]) \/ IsQueue(last.trace[i])
           /\ last.trace[i].cb \in CallbacksOf(switch_key(last.name, 0))

\* C7: a process_switch call whose resulting state is 1 posts "sw_" + tag once
\* for each tag of the switch and nothing else; a call whose resulting state
\* is 0 posts nothing.
C7_TagEventsPosted ==
    last.op = "process_switch" =>
        Posts(last.trace) =
            IF last.state = 1
            THEN [i \in 1..Len(machine_switches[last.name].tags) |->
                     "sw_" \o machine_switches[last.name].tags[i]]
            ELSE <<>>

\* C8: for every switch in the state table the recorded time is the tick at
\* which its logical state last changed value.
C8_TimeIsLastTransition ==
    \A n \in DOMAIN switches : switches[n].time = lastChange[n]

\* C9: a timer_tick call raises the tick by exactly 1, no other operation moves
\* it, and a timer in the set with frequency f >= 1 that was added at tick t is
\* invoked once in the ticks t + f, t + 2f, ... and in no other tick.
C9_TimerTickPeriodic ==
    /\ tick >= 0
    /\ tlast.op = "init" => tick = 0
    /\ tlast.op \in {"add", "remove"} => tick = tlast.before
    /\ tlast.op = "timer_tick" =>
           /\ tick = tlast.before + 1
           /\ \A t \in timers :
                  timer_objs[t].frequency >= 1 =>
                      Cardinality({i \in 1..Len(tlast.trace) : tlast.trace[i] = t})
                          = IF (tick - addedAt[t]) % timer_objs[t].frequency = 0
                            THEN 1 ELSE 0

C9_Witness ==
    /\ tlast.op = "timer_tick"
    /\ \E t \in timers :
           /\ timer_objs[t].frequency = 2
           /\ tick = addedAt[t] + 4
           /\ \E i \in 1..Len(tlast.trace) : tlast.trace[i] = t

\* the timer whose callback raised in the last timer_tick
Raiser == tlast.trace[Len(tlast.trace)]

\* C10 as stated: when a periodic timer's callback raises in timer_tick, the
\* timer stays in the set with its wakeup advanced by its frequency, so for a
\* frequency > 1 it is not due on the next tick.
C10_RaiseLeavesWakeupAdvanced ==
    (tlast.op = "timer_tick" /\ tlast.error /\ timer_objs[Raiser].frequency >= 1) =>
        /\ Raiser \in timers
        /\ timer_objs[Raiser].wakeup = tlast.wakeup0 + timer_objs[Raiser].frequency
        /\ timer_objs[Raiser].frequency > 1 => ~Due(timer_objs[Raiser], tick + 1)

\* C10 amended: when a periodic timer's callback raises in timer_tick, the
\* exception ends the call at that timer, the timer stays in the set and its
\* wakeup is not advanced, so it is due again on the next tick.
C10_RaiseLeavesWakeupUnchanged ==
    (tlast.op = "timer_tick" /\ tlast.error /\ timer_objs[Raiser].frequency >= 1) =>
        /\ timer_objs[Raiser].callback = "raise"
        /\ \A i \in 1..(Len(tlast.trace) - 1) : timer_objs[tlast.trace[i]].callback # "raise"
        /\ Raiser \in timers
        /\ timer_objs[Raiser].wakeup = tlast.wakeup0
        /\ Due(timer_objs[Raiser], tick + 1)

C10_Witness ==
    /\ tlast.op = "timer_tick"
    /\ tlast.error
    /\ timer_objs[Raiser].frequency = 2
    /\ Len(tlast.trace) = 2

\* C11: when a timer's callback adds a new timer with frequency >= 1 during
\* timer_tick, that timer_tick call completes normally, the new timer's
\* callback is not invoked in that tick and the new timer is in the set
\* afterwards.
C11_AddDuringTickCompletes ==
    (tlast.op = "timer_tick" /\ \E u \in tlast.fresh : timer_objs[u].frequency >= 1) =>
        /\ ~tlast.changed
        /\ ~tlast.error
        /\ \A u \in tlast.fresh :
               /\ u \in timers
               /\ \A i \in 1..Len(tlast.trace) : tlast.trace[i] # u

\* C12: remove(timer) reports no error and leaves the tick unchanged; with a
\* timer that is not in the set it leaves the set as it was, with a timer in
\* the set it removes exactly that timer.
C12_RemoveAbsentIsNoOp ==
    tlast.op = "remove" =>
        /\ ~tlast.error
        /\ tick = tlast.before
        /\ timers = tlast.set0 \ {tlast.timer}

\* C13: for every X and tick rate, time_to_ticks("Xms") equals msecs(X), which
\* is X * HZ / 1000 rounded toward zero, and time_to_ticks("Xs") and
\* time_to_ticks("X") equal secs(X), which is X * HZ.
C13_TimeToTicks ==
    cvIn.op = "time_to_ticks" =>
        IF cvIn.suffix = <<"m", "s">>
        THEN cvOut = msecs(cvIn.x, cvHZ) /\ cvOut = (cvIn.x * cvHZ) \div 1000
        ELSE cvOut = secs(cvIn.x, cvHZ) /\ cvOut = cvIn.x * cvHZ

\* C14: the dwell that add_switch_handler records for ms is
\* ceil(ms * HZ / 1000): 0 for ms = 0, at least 1 for ms > 0, and 5 for
\* ms = 100 at HZ = 50.
C14_DwellIsCeil ==
    cvIn.op = "add_switch_handler" =>
        /\ cvOut = Ceil(cvIn.x * cvHZ, 1000)
        /\ cvIn.x = 0 => cvOut = 0
        /\ cvIn.x > 0 => cvOut >= 1
        /\ (cvIn.x = 100 /\ cvHZ = 50) => cvOut = 5

\* C15: add_switch_handler called with a switch name that is not in the switch
\* table, or with a negative ms, fails at that call and adds no entry to
\* registered_switches.
C15_BadRegistrationRejected ==
    (last.op = "add_switch_handler" /\ (last.name \notin Names \/ last.ms < 0)) =>
        /\ last.error
        /\ last.cb \notin CallbacksOf(switch_key(last.name, last.state))

\* C19: every key of active_timed_switches is greater than the current tick
\* (the states of the model are the states between the operations, none is
\* inside a tick hook).
C19_BucketsAreInTheFuture ==
    \A k \in DOMAIN active_timed_switches : k > tick

\* the chunks of the reads before the last one
EarlierChunks == [i \in 1..(Len(srReads) - 1) |-> srReads[i].data]

\* C16: a read that raises an error (other than cancellation) or returns an
\* empty chunk makes the loop call machine.stop() exactly once and return
\* without a call of _parse_msg for that read, and no read follows; all reads
\* before it returned non-empty chunks, each handed to _parse_msg exactly
\* once, in read order.  Without such a read machine.stop() is not called.
C16_ReadFailureStopsOnce ==
    /\ \A i \in 1..(Len(srReads) - 1) : srReads[i].kind = "chunk"
    /\ (srReads # <<>> /\ srReads[Len(srReads)].kind \in {"empty", "error"}) =>
           /\ srStops = 1
           /\ srPos = "returned"
           /\ srParsed = EarlierChunks
    /\ (srReads # <<>> /\ srReads[Len(srReads)].kind = "chunk") =>
           /\ srStops = 0
           /\ srParsed = Append(EarlierChunks, srReads[Len(srReads)].data)
    /\ (srReads # <<>> /\ srReads[Len(srReads)].kind = "cancelled") =>
           /\ srStops = 0
           /\ srPos = "raised"
           /\ srParsed = EarlierChunks
    /\ srReads = <<>> => srStops = 0 /\ srParsed = <<>>

C16_Witness ==
    /\ Len(srReads) = 3
    /\ srReads[3].kind = "empty"
    /\ srParsed = <<"a", "b">>
    /\ srStops = 1

\* C17: update_acceleration with the sample (0, 0, 0), or with a level
\* reference vector of length 0, completes without error and posts no level
\* event.
C17_ZeroVectorSkipsLevel ==
    (/\ acLast.op = "update_acceleration"
     /\ SquaredLength(acLast.sample) = 0 \/ SquaredLength(acLevel) = 0) =>
        acLast.error = "none" /\ acLast.posts = <<>>

\* C18: within one process_switch call the state and time are updated first,
\* then the handlers of (name, new state) are taken in registration order,
\* the dwell-0 ones invoked and the others queued, then the sweep runs, then
\* the tag events are posted, and only if the sweep has finished; the new
\* state is the one is_state reports from the first handler on.
C18_StepsInOrder ==
    last.op = "process_switch" =>
        LET entries == EntriesOf(switch_key(last.name, last.state))
            n == Len(entries)
            tr == last.trace
        IN /\ Len(tr) >= n + 2
           /\ tr[1].step = "set_state"
           /\ is_state(switches, last.name, last.state, 0, tick)
           /\ \A i \in 1..n :
                  /\ tr[1 + i].cb = entries[i].callback
                  /\ tr[1 + i].step = IF entries[i].ticks = 0 THEN "call" ELSE "queue"
           /\ tr[n + 2].step = "sweep"
           /\ \A i \in (n + 3)..Len(tr) : IsPost(tr[i])
           /\ last.error => Len(tr) = n + 2

C18_Witness ==
    /\ last.op = "process_switch"
    /\ Len(last.trace) = 5
    /\ IsCall(last.trace[2])
    /\ IsQueue(last.trace[3])
    /\ IsPost(last.trace[5])

\* C20: the sweep of process_switch(name, new_state) removes exactly the
\* buckets that hold at least one pending fire for (name, opposite state),
\* each as a whole, and leaves every other bucket as the handler loop left it.
C20_SweepRemovesExactlyMatchingBuckets ==
    [][(last'.op = "process_switch" /\ nEvents' = nEvents + 1) =>
          LET key == switch_key(last'.name, last'.state)
              opposite == switch_key(last'.name, 1 - last'.state)
              pre == RunHandlers(EntriesOf(key), key, tick,
                                 [ats |-> active_timed_switches, trace |-> <<>>]).ats
              keep == {k \in DOMAIN pre :
                          \A i \in 1..Len(pre[k]) : pre[k][i].switch_action # opposite}
          IN active_timed_switches' = [k \in keep |-> pre[k]]]_vars

\* C22: for a switch of the switch table process_switch never ends in an
\* internal error, whatever handlers are registered and whatever pending fires
\* exist, and after it no pending fire for the opposite state is left.
C22_ProcessSwitchNeverFails ==
    last.op = "process_switch" =>
        /\ ~last.error
        /\ PendingFor(switch_key(last.name, Xor1(last.state))) = {}

\* C23: process_switch called for a switch that is not in the switch table (an
\* unknown name, or a num that matches no switch) fails before anything is
\* changed: the state table, active_timed_switches and registered_switches
\* stay as they were, no handler is invoked and no event is posted.
C23_UnknownSwitchChangesNothing ==
    [][(last'.op = "process_switch" /\ last'.name \notin Names) =>
          /\ last'.error
          /\ last'.trace = <<>>
          /\ switches' = switches
          /\ active_timed_switches' = active_timed_switches
          /\ registered_switches' = registered_switches
          /\ surplus' = surplus]_vars

C23_Witness ==
    /\ last.op = "process_switch"
    /\ last.name = NoName
    /\ last.error
    /\ switches # <<>>
    /\ registered_switches # <<>>
    /\ active_timed_switches # <<>>

\* C21: the tick hook invokes the callbacks of every bucket that is due and
\* removes the bucket, also when a callback it invokes calls process_switch:
\* the hook ends without an error and leaves no bucket with key <= tick.
C21_TickToleratesMutation ==
    last.op = "tick" =>
        /\ ~last.error
        /\ \A k \in DOMAIN active_timed_switches : k > tick

====
